---- MODULE Spec2Model ----
(***************************************************************************)
(* Model of pkg/handlers/handlers.go: HandleFile (the dispatch call),      *)
(* processHandler (one attempt for one handler variant) and handleChunks   *)
(* (the relay), together with the goroutines and collaborators they talk   *)
(* to: the producer started by Handler.FromFile, the context's cancel      *)
(* function, the consumer of chunksChan and the DiskBufferReader wrapped   *)
(* around the single-pass file reader.                                     *)
(*                                                                         *)
(* Handler, SpecializedHandler and DiskBufferReader are interfaces or      *)
(* imported types: every result their methods can return is drawn with \E. *)
(* DefaultHandlers() is the ordered registry the dispatcher ranges over;   *)
(* the source registers one variant (Archive), the model ranges over       *)
(* registries of 1..MaxHandlers variants.                                  *)
(*                                                                         *)
(* reReader, the channel FromFile returns and the result of handleChunks   *)
(* are locals of one processHandler call: the model holds those of the     *)
(* attempt under way (or of the last one), and what outlives an attempt:   *)
(* the position of the file reader, the context, chunksChan and, as        *)
(* history, the calls made for each variant. A producer that is still      *)
(* running when its attempt ends is left behind with its channel when the  *)
(* next attempt starts. The model follows one dispatch call up to its      *)
(* return.                                                                 *)
(***************************************************************************)
EXTENDS Integers, Sequences, FiniteSets, TLC

\* ---- bounds of the model ------------------------------------------------
MaxHandlers == 2        \* length of the registry returned by DefaultHandlers
FileLen == 2            \* bytes the single-pass file reader can deliver
MaxProbe == 1           \* bytes one HandleSpecialized / IsFiletype call reads
MaxPayloads == 2        \* payloads one producer puts on its channel
HandlerChanCap == 2     \* buffer of the channel FromFile returns
ChunksChanCap == 1      \* buffer of chunksChan

Handlers == 1..MaxHandlers

\* A payload is a []byte. The i-th payload of a producer is the i bytes
\* 1..i, so that the payloads of one producer differ from each other.
Payload(i) == [j \in 1..i |-> j]
\* The nil []byte.
NoData == <<>>

VARIABLES
    nHandlers,    \* len(DefaultHandlers())
    chunkSkel,    \* *chunkSkel, the caller's template
    ctxDone,      \* ctx.Done() is closed
    filePos,      \* bytes already taken out of the file reader
    pc,           \* position of the HandleFile goroutine
    cur,          \* index of h in the range loop (0 before the first)
    success,      \* return value of the processHandler call
    result,       \* return value of HandleFile: "none", "true", "false"
    ev,           \* per variant: the calls made on it and on its reReader
    reReader,     \* the DiskBufferReader of the attempt
    special,      \* FromFile was given the reader HandleSpecialized returned
    isSpecial,    \* isSpecial of line 67
    specErr,      \* err of line 67 is not nil
    prod,         \* the producer goroutine: "idle", "running", "closed"
    handlerChan,  \* buffer of the channel FromFile returned
    produced,     \* every payload the producer has put on that channel
    relay,        \* return value of handleChunks: "none", "true", "false"
    doneAtClose,  \* ctx was done when handleChunks observed !open
    chunk,        \* the local chunk of handleChunks
    out,          \* every chunk sent on chunksChan, with the variant it is from
    nConsumed,    \* chunks the consumer has taken from chunksChan
    calls,        \* per concurrent handleChunks call: its arguments and locals
    sharedChan,   \* every chunk sent on the chunksChan those calls share
    sharedTaken   \* chunks the consumer has taken from that chunksChan

vars == <<nHandlers, chunkSkel, ctxDone, filePos, pc, cur, success, result, ev,
          reReader, special, isSpecial, specErr, prod, handlerChan, produced, relay, doneAtClose,
          chunk, out, nConsumed, calls, sharedChan, sharedTaken>>

sharedVars == <<calls, sharedChan, sharedTaken>>
callerVars == <<nHandlers, chunkSkel>>
dispatchVars == <<pc, cur, success, result>>
producerVars == <<special, prod, handlerChan, produced>>
relayVars == <<relay, doneAtClose, chunk, out>>

\* The templates a caller passes: sources.Chunk with its metadata set and
\* no Data.
Templates == {[SourceName |-> "t1", Data |-> NoData]}

\* The zero value of sources.Chunk: handleChunks holds no chunk.
NoChunk == [SourceName |-> "", Data |-> NoData]

Min(a, b) == IF a < b THEN a ELSE b

\* ---- DiskBufferReader ---------------------------------------------------
\* No reader: before the first attempt, and after Close released the buffer.
NoReader == [open |-> FALSE, base |-> 0, pulled |-> 0, index |-> 0]

\* diskbufferreader.New(file): wraps the file reader as it is now; nothing
\* is read at construction, bytes are pulled from file on demand.
NewReader(pos) == [open |-> TRUE, base |-> pos, pulled |-> 0, index |-> 0]

\* Bytes a Read of k bytes has to pull from the file reader: those past what
\* the reader has already recorded, as far as the file still has any.
Pull(r, pos, k) ==
    IF r.open /\ r.index + k > r.pulled
    THEN Min(r.index + k - r.pulled, FileLen - pos)
    ELSE 0

\* The reader after a Read of k bytes (a closed reader delivers nothing).
ReadBytes(r, pos, k) ==
    IF r.open
    THEN [r EXCEPT !.pulled = r.pulled + Pull(r, pos, k),
                   !.index = Min(r.index + k, r.pulled + Pull(r, pos, k))]
    ELSE r

\* Variant of SeekStart: the seek is relative to the current position
\* (io.SeekCurrent), which leaves the reader where the probe left it.
SeekStart_Current(r) == r

\* reReader.Seek(0, io.SeekStart) without error.
SeekStart(r) == [r EXCEPT !.index = 0]

\* Offset in the original input of the next byte reader r delivers.
Offset(r) == r.base + r.index

\* ---- history of calls ---------------------------------------------------
Called(h, op) == \E i \in 1..Len(ev[h]) : ev[h][i] = op
Count(h, op) == Len(SelectSeq(ev[h], LAMBDA e : e = op))
Log(h, ops) == [ev EXCEPT ![h] = @ \o ops]

\* ---- Init ---------------------------------------------------------------
\* The locals of an attempt before processHandler is entered.
\* The handleChunks calls that run concurrently on one chunksChan, each for
\* another input: its own ctx, handlerChan and chunkSkel.
Calls == {1, 2}

\* The template of call c: another SourceName for each input.
CallTemplate(c) == [SourceName |-> <<"t1", "t2">>[c], Data |-> NoData]

\* Call c at the entry of handleChunks: FromFile has started its producer.
CallEntry(c) ==
    [pc |-> "recv", ctxDone |-> FALSE, chunkSkel |-> CallTemplate(c),
     prod |-> "running", handlerChan |-> <<>>, produced |-> <<>>,
     relay |-> "none", chunk |-> NoChunk]

FreshAttempt ==
    /\ special' = FALSE
    /\ isSpecial' = FALSE
    /\ specErr' = FALSE
    /\ prod' = "idle"
    /\ handlerChan' = <<>>
    /\ produced' = <<>>
    /\ relay' = "none"
    /\ doneAtClose' = FALSE

\* Lines 40-41: HandleFile is entered with its arguments; nothing has run.
HandleFileEntry ==
    /\ nHandlers \in 1..MaxHandlers
    /\ chunkSkel \in Templates
    /\ ctxDone = FALSE
    /\ filePos = 0
    /\ pc = "range"
    /\ cur = 0
    /\ success = FALSE
    /\ result = "none"
    /\ ev = [h \in Handlers |-> <<>>]
    /\ reReader = NoReader
    /\ special = FALSE
    /\ isSpecial = FALSE
    /\ specErr = FALSE
    /\ prod = "idle"
    /\ handlerChan = <<>>
    /\ produced = <<>>
    /\ relay = "none"
    /\ doneAtClose = FALSE
    /\ chunk = NoChunk
    /\ out = <<>>
    /\ nConsumed = 0

\* One HandleFile call, and no handleChunks call beside it.
Init ==
    /\ HandleFileEntry
    /\ calls = <<>>
    /\ sharedChan = <<>>
    /\ sharedTaken = 0

\* ---- HandleFile ---------------------------------------------------------
\* Variant of NewReaderFails: the error is logged and the loop goes on with
\* the next h (continue in place of return false).
NewReaderFails_Continue ==
    /\ pc = "range"
    /\ cur < nHandlers
    /\ cur' = cur + 1
    /\ ev' = Log(cur + 1, <<"New", "NewReaderError">>)
    /\ FreshAttempt
    /\ pc' = "range"
    /\ UNCHANGED <<sharedVars, callerVars, ctxDone, filePos, reReader, success, result,
                   chunk, out, nConsumed>>

\* Lines 42-52, the error branch: the next h of the range, h.New(), and
\* diskbufferreader.New(file) returns an error: return false.
NewReaderFails ==
    /\ pc = "range"
    /\ cur < nHandlers
    /\ cur' = cur + 1
    /\ ev' = Log(cur + 1, <<"New", "NewReaderError">>)
    /\ FreshAttempt
    /\ result' = "false"
    /\ pc' = "done"
    /\ UNCHANGED <<sharedVars, callerVars, ctxDone, filePos, reReader, success, chunk, out,
                   nConsumed>>

\* Lines 42-54: the next h of the range, h.New(), a fresh reReader around
\* file, and the call of processHandler.
NewReaderOk ==
    /\ pc = "range"
    /\ cur < nHandlers
    /\ cur' = cur + 1
    /\ ev' = Log(cur + 1, <<"New", "NewReader">>)
    /\ reReader' = NewReader(filePos)
    /\ FreshAttempt
    /\ pc' = "special"
    /\ UNCHANGED <<sharedVars, callerVars, ctxDone, filePos, success, result, chunk, out,
                   nConsumed>>

\* Line 59: the range is exhausted: return false.
RangeEnd ==
    /\ pc = "range"
    /\ cur = nHandlers
    /\ result' = "false"
    /\ pc' = "done"
    /\ UNCHANGED <<sharedVars, callerVars, isSpecial, specErr,
                   ctxDone, filePos, reReader, cur, success, ev,
                   producerVars, relayVars, nConsumed>>

\* Lines 54-57: processHandler has returned: return true on success, else
\* go on with the next h.
ProcessHandlerReturns ==
    /\ pc = "ret"
    /\ IF success
       THEN /\ result' = "true"
            /\ pc' = "done"
       ELSE /\ result' = result
            /\ pc' = "range"
    /\ UNCHANGED <<sharedVars, callerVars, isSpecial, specErr,
                   ctxDone, filePos, reReader, cur, success, ev,
                   producerVars, relayVars, nConsumed>>

\* ---- processHandler -----------------------------------------------------
\* h.FromFile(ctx, reader): starts the producer goroutine and returns its
\* channel; viaSpecial tells which reader it was given.
FromFile(viaSpecial) ==
    /\ prod' = "running"
    /\ special' = viaSpecial

\* Line 66, h.(SpecializedHandler) not ok: straight to the seek.
NotSpecializedHandler ==
    /\ pc = "special"
    /\ pc' = "seek"
    /\ UNCHANGED <<sharedVars, callerVars, isSpecial, specErr,
                   ctxDone, filePos, reReader, cur, success,
                   result, ev, producerVars, relayVars, nConsumed>>

\* Variant of SpecializedRecognized: FromFile is given reReader in place of
\* the reader HandleSpecialized returned.
SpecializedRecognized_ReReader ==
    /\ pc = "special"
    /\ \E k \in 0..MaxProbe, err \in BOOLEAN :
          /\ reReader' = ReadBytes(reReader, filePos, k)
          /\ filePos' = filePos + Pull(reReader, filePos, k)
          /\ specErr' = err
    /\ isSpecial' = TRUE
    /\ ev' = Log(cur, <<"HandleSpecialized", "FromFile">>)
    /\ FromFile(FALSE)
    /\ pc' = "recv"
    /\ UNCHANGED <<sharedVars, callerVars, ctxDone, cur, success, result, handlerChan,
                   produced, relayVars, nConsumed>>

\* Variant of SpecializedRecognized: err is tested before isSpecial, so an
\* error is logged and the attempt goes on to the seek and the type check.
SpecializedRecognized_ErrFirst ==
    /\ pc = "special"
    /\ \E k \in 0..MaxProbe, err \in BOOLEAN :
          /\ reReader' = ReadBytes(reReader, filePos, k)
          /\ filePos' = filePos + Pull(reReader, filePos, k)
          /\ specErr' = err
          /\ IF err
             THEN /\ ev' = Log(cur, <<"HandleSpecialized", "LogError">>)
                  /\ UNCHANGED <<special, prod>>
                  /\ pc' = "seek"
             ELSE /\ ev' = Log(cur, <<"HandleSpecialized", "FromFile">>)
                  /\ FromFile(TRUE)
                  /\ pc' = "recv"
    /\ isSpecial' = TRUE
    /\ UNCHANGED <<sharedVars, callerVars, ctxDone, cur, success, result, handlerChan,
                   produced, relayVars, nConsumed>>

\* Lines 66-69: HandleSpecialized reads k bytes of reReader and reports
\* isSpecial (with or without an error): FromFile gets the returned reader
\* and handleChunks starts.
SpecializedRecognized ==
    /\ pc = "special"
    /\ \E k \in 0..MaxProbe, err \in BOOLEAN :
          /\ reReader' = ReadBytes(reReader, filePos, k)
          /\ filePos' = filePos + Pull(reReader, filePos, k)
          /\ specErr' = err
    /\ isSpecial' = TRUE
    /\ ev' = Log(cur, <<"HandleSpecialized", "FromFile">>)
    /\ FromFile(TRUE)
    /\ pc' = "recv"
    /\ UNCHANGED <<sharedVars, callerVars, ctxDone, cur, success, result, handlerChan,
                   produced, relayVars, nConsumed>>

\* Variant of SpecializedNotRecognized: an error ends the attempt (return
\* false after the log).
SpecializedNotRecognized_ErrFatal ==
    /\ pc = "special"
    /\ \E k \in 0..MaxProbe, err \in BOOLEAN :
          /\ reReader' = ReadBytes(reReader, filePos, k)
          /\ filePos' = filePos + Pull(reReader, filePos, k)
          /\ ev' = Log(cur, IF err THEN <<"HandleSpecialized", "LogError">>
                                   ELSE <<"HandleSpecialized">>)
          /\ specErr' = err
          /\ pc' = IF err THEN "stop" ELSE "seek"
    /\ isSpecial' = FALSE
    /\ success' = FALSE
    /\ UNCHANGED <<sharedVars, callerVars, ctxDone, cur, result, producerVars,
                   relayVars, nConsumed>>

\* Lines 66-74: HandleSpecialized reads k bytes of reReader and reports not
\* special; an error is logged and dropped.
SpecializedNotRecognized ==
    /\ pc = "special"
    /\ \E k \in 0..MaxProbe, err \in BOOLEAN :
          /\ reReader' = ReadBytes(reReader, filePos, k)
          /\ filePos' = filePos + Pull(reReader, filePos, k)
          /\ ev' = Log(cur, IF err THEN <<"HandleSpecialized", "LogError">>
                                   ELSE <<"HandleSpecialized">>)
          /\ specErr' = err
    /\ isSpecial' = FALSE
    /\ pc' = "seek"
    /\ UNCHANGED <<sharedVars, callerVars, ctxDone, cur, success, result, producerVars,
                   relayVars, nConsumed>>

\* Variant of SeekFails: the failure ends the whole HandleFile call.
SeekFails_Fatal ==
    /\ pc = "seek"
    /\ ev' = Log(cur, <<"Seek", "LogError", "Stop", "Close">>)
    /\ success' = FALSE
    /\ result' = "false"
    /\ pc' = "done"
    /\ reReader' = NoReader
    /\ UNCHANGED <<sharedVars, callerVars, isSpecial, specErr,
                   ctxDone, filePos, cur,
                   producerVars, relayVars, nConsumed>>

\* Variant of SeekFails: the early return leaves without releasing reReader
\* (Stop and Close called on the later paths only, not deferred).
SeekFails_NoRelease ==
    /\ pc = "seek"
    /\ ev' = Log(cur, <<"Seek", "LogError">>)
    /\ success' = FALSE
    /\ pc' = "ret"
    /\ UNCHANGED <<sharedVars, callerVars, isSpecial, specErr,
                   ctxDone, filePos, reReader, cur, result,
                   producerVars, relayVars, nConsumed>>

\* Lines 76-79: reReader.Seek(0, io.SeekStart) fails: return false.
SeekFails ==
    /\ pc = "seek"
    /\ ev' = Log(cur, <<"Seek", "LogError">>)
    /\ success' = FALSE
    /\ pc' = "stop"
    /\ UNCHANGED <<sharedVars, callerVars, isSpecial, specErr,
                   ctxDone, filePos, reReader, cur, result,
                   producerVars, relayVars, nConsumed>>

\* Line 76: reReader.Seek(0, io.SeekStart) succeeds.
SeekOk ==
    /\ pc = "seek"
    /\ ev' = Log(cur, <<"Seek">>)
    /\ reReader' = SeekStart(reReader)
    /\ pc' = "istype"
    /\ UNCHANGED <<sharedVars, callerVars, isSpecial, specErr,
                   ctxDone, filePos, cur, success, result,
                   producerVars, relayVars, nConsumed>>

\* Variant of TypeRejected: the rejection leaves without releasing reReader.
TypeRejected_NoRelease ==
    /\ pc = "istype"
    /\ \E k \in 0..MaxProbe :
          /\ reReader' = ReadBytes(reReader, filePos, k)
          /\ filePos' = filePos + Pull(reReader, filePos, k)
    /\ ev' = Log(cur, <<"IsFiletype">>)
    /\ success' = FALSE
    /\ pc' = "ret"
    /\ UNCHANGED <<sharedVars, callerVars, isSpecial, specErr,
                   ctxDone, cur, result, producerVars, relayVars,
                   nConsumed>>

\* Variant of TypeRejected: the test of isType is inverted into a success.
TypeRejected_Success ==
    /\ pc = "istype"
    /\ \E k \in 0..MaxProbe :
          /\ reReader' = ReadBytes(reReader, filePos, k)
          /\ filePos' = filePos + Pull(reReader, filePos, k)
    /\ ev' = Log(cur, <<"IsFiletype">>)
    /\ success' = TRUE
    /\ pc' = "stop"
    /\ UNCHANGED <<sharedVars, callerVars, isSpecial, specErr,
                   ctxDone, cur, result, producerVars, relayVars,
                   nConsumed>>

\* Lines 81-83: IsFiletype reads k bytes of reReader and rejects.
TypeRejected ==
    /\ pc = "istype"
    /\ \E k \in 0..MaxProbe :
          /\ reReader' = ReadBytes(reReader, filePos, k)
          /\ filePos' = filePos + Pull(reReader, filePos, k)
    /\ ev' = Log(cur, <<"IsFiletype">>)
    /\ success' = FALSE
    /\ pc' = "stop"
    /\ UNCHANGED <<sharedVars, callerVars, isSpecial, specErr,
                   ctxDone, cur, result, producerVars, relayVars,
                   nConsumed>>

\* Lines 81-85: IsFiletype reads k bytes of reReader and accepts: FromFile
\* gets reReader and handleChunks starts.
TypeAccepted ==
    /\ pc = "istype"
    /\ \E k \in 0..MaxProbe :
          /\ reReader' = ReadBytes(reReader, filePos, k)
          /\ filePos' = filePos + Pull(reReader, filePos, k)
    /\ ev' = Log(cur, <<"IsFiletype", "FromFile">>)
    /\ FromFile(FALSE)
    /\ pc' = "recv"
    /\ UNCHANGED <<sharedVars, callerVars, isSpecial, specErr,
                   ctxDone, cur, success, result, handlerChan,
                   produced, relayVars, nConsumed>>

\* Line 64, defer reReader.Stop(): runs first when processHandler returns.
DeferStop ==
    /\ pc = "stop"
    /\ ev' = Log(cur, <<"Stop">>)
    /\ pc' = "close"
    /\ UNCHANGED <<sharedVars, callerVars, isSpecial, specErr,
                   ctxDone, filePos, reReader, cur, success,
                   result, producerVars, relayVars, nConsumed>>

\* Line 63, defer reReader.Close(): runs last when processHandler returns;
\* the buffer is released.
DeferClose ==
    /\ pc = "close"
    /\ ev' = Log(cur, <<"Close">>)
    /\ reReader' = NoReader
    /\ pc' = "ret"
    /\ UNCHANGED <<sharedVars, callerVars, isSpecial, specErr,
                   ctxDone, filePos, cur, success, result,
                   producerVars, relayVars, nConsumed>>

\* ---- handleChunks -------------------------------------------------------
\* Lines 95-96: chunk := *chunkSkel; chunk.Data = data.
CloneChunk(skel, d) == [skel EXCEPT !.Data = d]

\* Variant of RelayReturns: the return is a break, which leaves the select
\* and not the for loop.
RelayReturns_BreakSelect(b) ==
    /\ relay' = IF b THEN "true" ELSE "false"
    /\ success' = b
    /\ chunk' = NoChunk
    /\ pc' = "recv"

\* handleChunks returns b to processHandler, which returns it in turn
\* (lines 69 and 85).
RelayReturns(b) ==
    /\ relay' = IF b THEN "true" ELSE "false"
    /\ success' = b
    /\ chunk' = NoChunk
    /\ pc' = "stop"

\* Variant of RelayRecvData: the newest buffered payload is taken first.
RelayRecvData_Newest ==
    /\ pc = "recv"
    /\ handlerChan # <<>>
    /\ handlerChan' = SubSeq(handlerChan, 1, Len(handlerChan) - 1)
    /\ chunk' = CloneChunk(chunkSkel, handlerChan[Len(handlerChan)])
    /\ pc' = "send"
    /\ UNCHANGED <<sharedVars, callerVars, isSpecial, specErr,
                   ctxDone, filePos, reReader, cur, success,
                   result, ev, special, prod, produced, relay, doneAtClose,
                   out, nConsumed>>

\* Variant of RelayRecvData: the payload is attached to the template itself
\* (chunkSkel.Data = data) and the chunk sent is the template.
RelayRecvData_InPlace ==
    /\ pc = "recv"
    /\ handlerChan # <<>>
    /\ handlerChan' = Tail(handlerChan)
    /\ chunkSkel' = CloneChunk(chunkSkel, Head(handlerChan))
    /\ chunk' = chunkSkel'
    /\ pc' = "send"
    /\ UNCHANGED <<sharedVars, nHandlers, isSpecial, specErr,
                   ctxDone, filePos, reReader,
                   cur, success, result, ev, special, prod, produced, relay,
                   doneAtClose, out, nConsumed>>

\* Variant of RelayRecvData: the receive drains handlerChan and keeps the
\* last payload only.
RelayRecvData_Drain ==
    /\ pc = "recv"
    /\ handlerChan # <<>>
    /\ handlerChan' = <<>>
    /\ chunk' = CloneChunk(chunkSkel, handlerChan[Len(handlerChan)])
    /\ pc' = "send"
    /\ UNCHANGED <<sharedVars, callerVars, isSpecial, specErr,
                   ctxDone, filePos, reReader,
                   cur, success, result, ev, special, prod, produced, relay,
                   doneAtClose, out, nConsumed>>

\* Lines 91-96, outer select: a payload is received from handlerChan.
RelayRecvData ==
    /\ pc = "recv"
    /\ handlerChan # <<>>
    /\ handlerChan' = Tail(handlerChan)
    /\ chunk' = CloneChunk(chunkSkel, Head(handlerChan))
    /\ pc' = "send"
    /\ UNCHANGED <<sharedVars, callerVars, isSpecial, specErr,
                   ctxDone, filePos, reReader, cur, success,
                   result, ev, special, prod, produced, relay, doneAtClose,
                   out, nConsumed>>

\* Lines 91-94, outer select: handlerChan is closed and drained: return true.
RelayRecvClosed ==
    /\ pc = "recv"
    /\ handlerChan = <<>>
    /\ prod = "closed"
    /\ doneAtClose' = ctxDone
    /\ RelayReturns(TRUE)
    /\ UNCHANGED <<sharedVars, callerVars, isSpecial, specErr,
                   ctxDone, filePos, reReader, cur, result, ev,
                   producerVars, out, nConsumed>>

\* Variant of RelayRecvCancelled: the cancellation returns true.
RelayRecvCancelled_True ==
    /\ pc = "recv"
    /\ ctxDone
    /\ RelayReturns(TRUE)
    /\ UNCHANGED <<sharedVars, callerVars, isSpecial, specErr,
                   ctxDone, filePos, reReader, cur, result, ev,
                   producerVars, doneAtClose, out, nConsumed>>

\* Lines 102-103, outer select: ctx.Done() is ready: return false.
RelayRecvCancelled ==
    /\ pc = "recv"
    /\ ctxDone
    /\ RelayReturns(FALSE)
    /\ UNCHANGED <<sharedVars, callerVars, isSpecial, specErr,
                   ctxDone, filePos, reReader, cur, result, ev,
                   producerVars, doneAtClose, out, nConsumed>>

\* Line 98, inner select: chunksChan takes &chunk; back to the outer select.
RelaySend ==
    /\ pc = "send"
    /\ Len(out) - nConsumed < ChunksChanCap
    /\ out' = Append(out, [chunk |-> chunk, from |-> cur])
    /\ chunk' = NoChunk
    /\ pc' = "recv"
    /\ UNCHANGED <<sharedVars, callerVars, isSpecial, specErr,
                   ctxDone, filePos, reReader, cur, success,
                   result, ev, producerVars, relay, doneAtClose, nConsumed>>

\* Variant of RelaySendCancelled: the chunk is dropped and the loop goes on.
RelaySendCancelled_Continue ==
    /\ pc = "send"
    /\ ctxDone
    /\ chunk' = NoChunk
    /\ pc' = "recv"
    /\ UNCHANGED <<sharedVars, callerVars, isSpecial, specErr,
                   ctxDone, filePos, reReader, cur, success,
                   result, ev, producerVars, relay, doneAtClose, out,
                   nConsumed>>

\* Variant of RelaySendCancelled: line 98 is a plain send, with no select
\* and no ctx.Done() case.
RelaySendCancelled_Blocking == RelaySend

\* Lines 99-100, inner select: ctx.Done() is ready: return false.
RelaySendCancelled ==
    /\ pc = "send"
    /\ ctxDone
    /\ RelayReturns(FALSE)
    /\ UNCHANGED <<sharedVars, callerVars, isSpecial, specErr,
                   ctxDone, filePos, reReader, cur, result, ev,
                   producerVars, doneAtClose, out, nConsumed>>

\* ---- the goroutines around the call -------------------------------------
\* The caller cancels ctx (line 39: the caller is responsible for that).
Cancel ==
    /\ ~ctxDone
    /\ result = "none"
    /\ ctxDone' = TRUE
    /\ UNCHANGED <<sharedVars, callerVars, isSpecial, specErr,
                   filePos, reReader, dispatchVars, ev,
                   producerVars, relayVars, nConsumed>>

\* The producer FromFile started reads on in the reader it was given and
\* puts its next payload on its channel.
Produce ==
    /\ result = "none"
    /\ prod = "running"
    /\ Len(handlerChan) < HandlerChanCap
    /\ Len(produced) < MaxPayloads
    /\ handlerChan' = Append(handlerChan, Payload(Len(produced) + 1))
    /\ produced' = Append(produced, Payload(Len(produced) + 1))
    /\ reReader' = ReadBytes(reReader, filePos, 1)
    /\ filePos' = filePos + Pull(reReader, filePos, 1)
    /\ UNCHANGED <<sharedVars, callerVars, isSpecial, specErr,
                   ctxDone, dispatchVars, ev, special, prod,
                   relayVars, nConsumed>>

\* The producer closes its channel and ends.
ProducerClose ==
    /\ result = "none"
    /\ prod = "running"
    /\ prod' = "closed"
    /\ UNCHANGED <<sharedVars, callerVars, isSpecial, specErr,
                   ctxDone, filePos, reReader, dispatchVars, ev,
                   special, handlerChan, produced, relayVars, nConsumed>>

\* The consumer takes the oldest chunk out of chunksChan.
Consume ==
    /\ result = "none"
    /\ nConsumed < Len(out)
    /\ nConsumed' = nConsumed + 1
    /\ UNCHANGED <<sharedVars, callerVars, isSpecial, specErr,
                   ctxDone, filePos, reReader, dispatchVars, ev,
                   producerVars, relayVars>>

Next ==
    \/ NewReaderFails
    \/ NewReaderOk
    \/ RangeEnd
    \/ ProcessHandlerReturns
    \/ NotSpecializedHandler
    \/ SpecializedRecognized
    \/ SpecializedNotRecognized
    \/ SeekFails
    \/ SeekOk
    \/ TypeRejected
    \/ TypeAccepted
    \/ DeferStop
    \/ DeferClose
    \/ RelayRecvData
    \/ RelayRecvClosed
    \/ RelayRecvCancelled
    \/ RelaySend
    \/ RelaySendCancelled
    \/ Cancel
    \/ Produce
    \/ ProducerClose
    \/ Consume

Spec == Init /\ [][Next]_vars

\* One step of the goroutine in handleChunks: whichever ready case its
\* select takes.
RelayStep ==
    \/ RelayRecvData
    \/ RelayRecvClosed
    \/ RelayRecvCancelled
    \/ RelaySend
    \/ RelaySendCancelled

\* The Go scheduler runs a goroutine whose select has a ready case: the
\* relay is not left waiting for ever with a case ready. Nothing is assumed
\* of the producer, the consumer or the caller.
FairSpec == Init /\ [][Next]_vars /\ WF_vars(RelayStep)

\* ---- concurrent handleChunks calls on one chunksChan ---------------------
\* Everything of one HandleFile call: the calls below leave it alone.
handleFileVars == <<callerVars, ctxDone, filePos, dispatchVars, ev, reReader,
                    isSpecial, specErr, producerVars, relayVars, nConsumed>>

\* Lines 93-94, 99-100, 102-103 in call c: return b.
CallReturns(c, b) ==
    calls' = [calls EXCEPT ![c].relay = IF b THEN "true" ELSE "false",
                           ![c].pc = "done"]

\* Variant of CallRecvData: the chunk is built from one template kept for
\* all the calls (that of call 1) and not from the call's own chunkSkel.
CallRecvData_OneTemplate(c) ==
    /\ calls[c].pc = "recv"
    /\ calls[c].handlerChan # <<>>
    /\ calls' = [calls EXCEPT
                    ![c].handlerChan = Tail(@),
                    ![c].chunk = CloneChunk(calls[1].chunkSkel,
                                            Head(calls[c].handlerChan)),
                    ![c].pc = "send"]
    /\ UNCHANGED <<handleFileVars, sharedChan, sharedTaken>>

\* Lines 91-96, outer select of call c: a payload is received.
CallRecvData(c) ==
    /\ calls[c].pc = "recv"
    /\ calls[c].handlerChan # <<>>
    /\ calls' = [calls EXCEPT
                    ![c].handlerChan = Tail(@),
                    ![c].chunk = CloneChunk(calls[c].chunkSkel,
                                            Head(calls[c].handlerChan)),
                    ![c].pc = "send"]
    /\ UNCHANGED <<handleFileVars, sharedChan, sharedTaken>>

\* Lines 91-94, outer select of call c: its handlerChan is closed and
\* drained: return true.
CallRecvClosed(c) ==
    /\ calls[c].pc = "recv"
    /\ calls[c].handlerChan = <<>>
    /\ calls[c].prod = "closed"
    /\ CallReturns(c, TRUE)
    /\ UNCHANGED <<handleFileVars, sharedChan, sharedTaken>>

\* Lines 102-103, outer select of call c: its ctx.Done() is ready: return
\* false.
CallRecvCancelled(c) ==
    /\ calls[c].pc = "recv"
    /\ calls[c].ctxDone
    /\ CallReturns(c, FALSE)
    /\ UNCHANGED <<handleFileVars, sharedChan, sharedTaken>>

\* Line 98, inner select of call c: the shared chunksChan takes &chunk.
CallSend(c) ==
    /\ calls[c].pc = "send"
    /\ Len(sharedChan) - sharedTaken < ChunksChanCap
    /\ sharedChan' = Append(sharedChan, [chunk |-> calls[c].chunk, from |-> c])
    /\ calls' = [calls EXCEPT ![c].chunk = NoChunk, ![c].pc = "recv"]
    /\ UNCHANGED <<handleFileVars, sharedTaken>>

\* Lines 99-100, inner select of call c: its ctx.Done() is ready: return
\* false.
CallSendCancelled(c) ==
    /\ calls[c].pc = "send"
    /\ calls[c].ctxDone
    /\ CallReturns(c, FALSE)
    /\ UNCHANGED <<handleFileVars, sharedChan, sharedTaken>>

\* The caller of call c cancels its ctx.
CallCancel(c) ==
    /\ calls[c].pc # "done"
    /\ ~calls[c].ctxDone
    /\ calls' = [calls EXCEPT ![c].ctxDone = TRUE]
    /\ UNCHANGED <<handleFileVars, sharedChan, sharedTaken>>

\* The producer of call c puts its next payload on its channel.
CallProduce(c) ==
    /\ calls[c].pc # "done"
    /\ calls[c].prod = "running"
    /\ Len(calls[c].handlerChan) < HandlerChanCap
    /\ Len(calls[c].produced) < MaxPayloads
    /\ calls' = [calls EXCEPT
                    ![c].handlerChan =
                        Append(@, Payload(Len(calls[c].produced) + 1)),
                    ![c].produced =
                        Append(@, Payload(Len(calls[c].produced) + 1))]
    /\ UNCHANGED <<handleFileVars, sharedChan, sharedTaken>>

\* The producer of call c closes its channel and ends.
CallProducerClose(c) ==
    /\ calls[c].pc # "done"
    /\ calls[c].prod = "running"
    /\ calls' = [calls EXCEPT ![c].prod = "closed"]
    /\ UNCHANGED <<handleFileVars, sharedChan, sharedTaken>>

\* The consumer takes the oldest chunk out of the shared chunksChan; it may
\* as well never do so.
SharedConsume ==
    /\ \E c \in Calls : calls[c].pc # "done"
    /\ sharedTaken < Len(sharedChan)
    /\ sharedTaken' = sharedTaken + 1
    /\ UNCHANGED <<handleFileVars, calls, sharedChan>>

\* The concurrent calls at their entry, chunksChan empty; the HandleFile
\* call of the other specifications stays at its entry.
SharedInit ==
    /\ HandleFileEntry
    /\ nHandlers = 1
    /\ calls = [c \in Calls |-> CallEntry(c)]
    /\ sharedChan = <<>>
    /\ sharedTaken = 0

SharedNext ==
    \/ \E c \in Calls : CallRecvData(c)
    \/ \E c \in Calls : CallRecvClosed(c)
    \/ \E c \in Calls : CallRecvCancelled(c)
    \/ \E c \in Calls : CallSend(c)
    \/ \E c \in Calls : CallSendCancelled(c)
    \/ \E c \in Calls : CallCancel(c)
    \/ \E c \in Calls : CallProduce(c)
    \/ \E c \in Calls : CallProducerClose(c)
    \/ SharedConsume

SpecShared == SharedInit /\ [][SharedNext]_vars

\* ---- what the claims speak of -------------------------------------------
IsPrefix(s, t) == Len(s) <= Len(t) /\ s = SubSeq(t, 1, Len(s))

\* The payloads of the chunks variant h's relay has sent on chunksChan.
FromVariant(h) == SelectSeq(out, LAMBDA c : c.from = h)
SentBy(h) == [i \in 1..Len(FromVariant(h)) |-> FromVariant(h)[i].chunk.Data]

\* The payloads handleChunks has received: those put on the channel and no
\* longer in its buffer.
Received == SubSeq(produced, 1, Len(produced) - Len(handlerChan))

\* The payloads of the chunks call c sent on the shared chunksChan, in the
\* order they were sent.
FromCall(c) == SelectSeq(sharedChan, LAMBDA k : k.from = c)
SentByCall(c) == [i \in 1..Len(FromCall(c)) |-> FromCall(c)[i].chunk.Data]

\* The payloads the relay of the current variant has received and not sent.
InFlight == Len(Received) - Len(SentBy(cur))

\* Variant h was accepted: its FromFile was invoked.
Accepted(h) == Called(h, "FromFile")

\* The attempt for variant h is over: processHandler has returned.
Concluded(h) == h < cur \/ (h = cur /\ pc \in {"ret", "range", "done"})

\* reReader of variant h was stopped once, then closed once.
Released(h) ==
    /\ Count(h, "Stop") = 1
    /\ Count(h, "Close") = 1
    /\ \E i \in 1..Len(ev[h]) :
          /\ ev[h][i] = "Stop"
          /\ \E j \in (i + 1)..Len(ev[h]) : ev[h][j] = "Close"

\* Op was the call made for variant h right after the call first.
CalledNext(h, first, op) ==
    \E i \in 1..(Len(ev[h]) - 1) : ev[h][i] = first /\ ev[h][i + 1] = op

\* The seek to the start failed for variant h: the error was logged right
\* after the Seek call.
SeekFailed(h) == CalledNext(h, "Seek", "LogError")

\* HandleSpecialized of variant h reported isSpecial: FromFile was called
\* on its return.
Recognized(h) == CalledNext(h, "HandleSpecialized", "FromFile")

\* HandleSpecialized of variant h reported not special with an error, which
\* line 72 logged.
NotRecognizedErr(h) == CalledNext(h, "HandleSpecialized", "LogError")

\* C1: whenever the dispatch call returns true (and already when the relay
\* of the selected variant does), the producer has closed its channel and
\* the payloads sent on chunksChan for that variant are exactly the payloads
\* the producer put on its channel, each once and none dropped.
C1_NoSilentDrop ==
    (result = "true" \/ relay = "true") =>
        /\ prod = "closed"
        /\ SentBy(cur) = produced

\* C1 witness: the call has returned true without any cancellation after a
\* producer put two payloads on its channel.
C1_Witness ==
    result = "true" /\ ~ctxDone /\ Len(produced) >= 2 /\ Len(out) >= 2

\* C2: in every state of a dispatch call, cancelled or not, the payloads the
\* relay has sent on chunksChan are a prefix of the payloads the producer
\* channel has yielded to it.
C2_ForwardedInOrder ==
    cur > 0 => IsPrefix(SentBy(cur), Received)

\* C2 witness: two payloads were forwarded by the relay of a cancelled call.
C2_Witness ==
    ctxDone /\ cur > 0 /\ Len(SentBy(cur)) >= 2

\* C3 as stated: a dispatch call whose context was cancelled before the
\* relay observed the producer's channel closed never returns true.
C3_CancelledNeverTrue ==
    result = "true" => ~doneAtClose

\* C3 amended: the relay returns false only with the context cancelled (one
\* of its selects took ctx.Done()), and then the attempt fails; it returns
\* true only on observing the producer's channel closed and drained, which
\* a select with ctx.Done() ready too may still do.
C3_FalseOnlyOnCancelTrueOnlyOnClose ==
    /\ relay = "false" => (ctxDone /\ ~success)
    /\ relay = "true" => (prod = "closed" /\ handlerChan = <<>> /\ success)

\* C3 witness: cancellation was observed mid-stream, after one of the two
\* payloads the producer put on its channel was forwarded.
C3_Witness ==
    /\ relay = "false"
    /\ Len(produced) = 2
    /\ Len(SentBy(cur)) = 1

\* C4 as stated: no chunk is sent on chunksChan at a step later than the
\* step at which the context became cancelled.
C4_NoSendAfterCancel ==
    [][ctxDone => out' = out]_vars

\* C4 amended: once a select of the relay has taken ctx.Done() and
\* handleChunks has returned false, that relay sends no further chunk.
C4_NoSendAfterCancelObserved ==
    [][relay = "false" => out' = out]_vars

\* C4 witness: the relay has returned false while the producer channel has
\* a payload ready and chunksChan has room.
C4_Witness ==
    /\ relay = "false"
    /\ handlerChan # <<>>
    /\ Len(out) - nConsumed < ChunksChanCap

\* C5: when only the k-th registered variant has accepted the stream, every
\* chunk on chunksChan is from the k-th variant, and every variant before it
\* has sent no chunk, never had FromFile invoked, and had its reReader
\* stopped and closed before the k-th variant was tried.
C5_SelectionOrder ==
    \A k \in Handlers :
        (Accepted(k) /\ \A j \in Handlers \ {k} : ~Accepted(j)) =>
            /\ \A i \in 1..Len(out) : out[i].from = k
            /\ \A j \in 1..(k - 1) :
                  /\ SentBy(j) = <<>>
                  /\ ~Called(j, "FromFile")
                  /\ Released(j)

\* C5 witness: of two variants only the second accepted, and the call
\* returned true with chunks on chunksChan.
C5_Witness ==
    /\ result = "true"
    /\ ~Accepted(1)
    /\ Accepted(2)
    /\ out # <<>>

C8_ResourceRelease ==
    \A h \in Handlers :
        /\ Count(h, "Stop") <= 1
        /\ Count(h, "Close") <= 1
        /\ Called(h, "Close") => Released(h)
        /\ (Called(h, "NewReader") /\ Concluded(h)) => Released(h)

\* C8 witness: the first attempt ended with an error logged (a seek failure or
\* a specialized-handler error) and the second by a cancelled relay.
C8_Witness ==
    /\ pc = "ret"
    /\ cur = 2
    /\ relay = "false"
    /\ Called(1, "LogError")

\* C9: if no registered variant accepts the stream, the dispatch call
\* returns false, having tried every variant and released its reReader, and
\* chunksChan has received no chunk.
C9_Rejection ==
    (/\ result # "none"
     /\ \A h \in 1..nHandlers : ~Accepted(h) /\ ~Called(h, "NewReaderError")) =>
        /\ result = "false"
        /\ out = <<>>
        /\ \A h \in 1..nHandlers : Called(h, "IsFiletype") \/ Called(h, "Seek")
        /\ \A h \in 1..nHandlers : Released(h)

\* C9 witness: the call has returned after the type checks of two variants
\* rejected the stream.
C9_Witness ==
    /\ result = "false"
    /\ nHandlers = 2
    /\ \A h \in 1..2 : Called(h, "IsFiletype") /\ ~Accepted(h)

\* C10: if constructing the reReader fails for a variant, the dispatch call
\* has returned false with nothing but New invoked on that variant, no chunk
\* sent for it and no later variant tried.
C10_ConstructionFatal ==
    \A h \in Handlers :
        Called(h, "NewReaderError") =>
            /\ result = "false"
            /\ pc = "done"
            /\ ev[h] = <<"New", "NewReaderError">>
            /\ SentBy(h) = <<>>
            /\ \A j \in Handlers : j > h => ev[j] = <<>>

\* C10 witness: construction failed for the first of two registered
\* variants.
C10_Witness ==
    nHandlers = 2 /\ Called(1, "NewReaderError")

\* C11: under weak fairness of the relay, whenever the context is cancelled
\* while handleChunks waits to receive from the producer or to send on
\* chunksChan, handleChunks eventually returns, whatever the producer and
\* the consumer do or fail to do.
C11_CancelledRelayReturns ==
    (ctxDone /\ pc \in {"recv", "send"}) ~> (pc \notin {"recv", "send"})

\* C11 witness: the context is cancelled while the relay waits to send, the
\* consumer has left chunksChan full, and the producer has neither sent
\* more nor closed.
C11_Witness ==
    /\ ctxDone
    /\ pc = "send"
    /\ Len(out) - nConsumed = ChunksChanCap
    /\ prod = "running"
    /\ handlerChan = <<>>

\* C12: if HandleSpecialized of a variant reports isSpecial, then in that
\* attempt neither the seek to the start nor IsFiletype is invoked, and the
\* variant's FromFile is invoked once, on the reader HandleSpecialized
\* returned and not on reReader.
C12_SpecializedPrecedence ==
    \A h \in Handlers :
        Recognized(h) =>
            /\ ~Called(h, "Seek")
            /\ ~Called(h, "IsFiletype")
            /\ Count(h, "FromFile") = 1
            /\ h = cur => special

\* C12 witness: the call returned true through a variant whose
\* HandleSpecialized recognized the stream after reading a byte of it.
C12_Witness ==
    /\ result = "true"
    /\ Recognized(cur)
    /\ filePos >= 1
    /\ out # <<>>

\* C13: whenever IsFiletype is called, on a variant without the specialized
\* capability or after HandleSpecialized reported not special, the call
\* made just before it on the same reReader is the seek to the start, so
\* IsFiletype starts reading at the first byte of reReader (for the first
\* variant: byte zero of the input) however many bytes the probe read.
C13_RewindGuarantee ==
    /\ \A h \in Handlers :
          Called(h, "IsFiletype") => CalledNext(h, "Seek", "IsFiletype")
    /\ pc = "istype" =>
          /\ reReader.open
          /\ reReader.index = 0
          /\ Offset(reReader) = reReader.base
          /\ cur = 1 => Offset(reReader) = 0

\* C13 witness: IsFiletype is about to be called after HandleSpecialized
\* read a byte of reReader and reported not special.
C13_Witness ==
    /\ pc = "istype"
    /\ Called(cur, "HandleSpecialized")
    /\ reReader.pulled >= 1

\* C14: an error of HandleSpecialized that comes with not special does not
\* end the attempt: the attempt is at the seek to the start or has made it,
\* on the same reReader; and the step that logs the error differs from the
\* one without an error in the log alone: it goes to the seek, sets no
\* return value and touches neither producer nor relay.
C14_SpecializedErrorNotFatal ==
    /\ [](\A h \in Handlers :
            NotRecognizedErr(h) => ((h = cur /\ pc = "seek") \/ Called(h, "Seek")))
    /\ [][(pc = "special" /\ specErr' /\ ~special') =>
            /\ pc' = "seek"
            /\ reReader'.open
            /\ reReader'.base = reReader.base
            /\ UNCHANGED <<cur, success, result, producerVars, relayVars>>]_vars

\* C14 witness: the call returned true through the ordinary type check of
\* a variant whose HandleSpecialized had reported an error.
C14_Witness ==
    /\ result = "true"
    /\ specErr
    /\ ~special
    /\ NotRecognizedErr(cur)
    /\ Called(cur, "IsFiletype")
    /\ out # <<>>

\* C15: when HandleSpecialized reports isSpecial together with an error,
\* the attempt is the one of isSpecial without an error: the error is not
\* logged, neither the seek nor IsFiletype is invoked, FromFile gets the
\* returned reader, and what the attempt (and, when the call ends with
\* it, the call) returns is what handleChunks returned.
C15_RecognitionBeforeError ==
    (cur > 0 /\ isSpecial /\ specErr) =>
        /\ special
        /\ Recognized(cur)
        /\ ~Called(cur, "LogError")
        /\ ~Called(cur, "Seek")
        /\ ~Called(cur, "IsFiletype")
        /\ relay # "none" => success = (relay = "true")
        /\ result # "none" => result = relay

\* C15 witness: the call returned true, with chunks sent, through a variant
\* whose HandleSpecialized reported isSpecial together with an error.
C15_Witness ==
    /\ isSpecial
    /\ specErr
    /\ result = "true"
    /\ out # <<>>

\* C16: for a variant whose seek to the start failed, neither IsFiletype
\* nor FromFile is invoked and no chunk is sent; once its attempt is over
\* reReader has been stopped and then closed, once each; and HandleFile
\* does not return before the next registered variant, if there is one,
\* has been instantiated.
C16_SeekFailureRecoverable ==
    \A h \in 1..nHandlers :
        SeekFailed(h) =>
            /\ ~Called(h, "IsFiletype")
            /\ ~Called(h, "FromFile")
            /\ SentBy(h) = <<>>
            /\ Concluded(h) => Released(h)
            /\ (result # "none" /\ h < nHandlers) => Called(h + 1, "New")

\* C16 witness: the seek failed for the first variant, and the call
\* returned true through the second one.
C16_Witness ==
    /\ SeekFailed(1)
    /\ Released(1)
    /\ Accepted(2)
    /\ result = "true"

\* C17: no step changes the template chunkSkel, and no step alters a chunk
\* already sent; every chunk sent, and the one the relay holds, is the
\* template with only Data replaced, and Data is the payload received from
\* the producer at that position.
C17_TemplateNeverMutated ==
    /\ [](/\ \A i \in 1..Len(out) :
                out[i].chunk = CloneChunk(chunkSkel, out[i].chunk.Data)
          /\ cur > 0 =>
                \A i \in 1..Len(SentBy(cur)) : SentBy(cur)[i] = Received[i]
          /\ pc = "send" =>
                chunk = CloneChunk(chunkSkel, Received[Len(Received)]))
    /\ [][chunkSkel' = chunkSkel /\ IsPrefix(out, out')]_vars

\* C17 witness: the call has returned after two chunks with different
\* payloads were sent.
C17_Witness ==
    /\ result # "none"
    /\ Len(out) >= 2
    /\ out[1].chunk.Data # out[2].chunk.Data
    /\ out[1].chunk.SourceName = chunkSkel.SourceName

\* C19 as stated: while the producer started by FromFile for the current
\* variant has not closed its channel, reReader has been neither stopped
\* nor closed.
C19_NotReleasedWhileProducing ==
    (cur > 0 /\ Accepted(cur) /\ prod = "running") =>
        ~Called(cur, "Stop") /\ ~Called(cur, "Close")

\* C20: the payloads the relay has received and not sent are none or one:
\* none while it waits to receive and after it returned true, one while it
\* waits to send; a return of false from the send select leaves exactly
\* one received payload unsent, a return of false from the receive
\* select leaves none.
C20_OnePayloadInFlight ==
    /\ []((cur > 0 /\ Called(cur, "NewReader")) =>
            /\ InFlight \in {0, 1}
            /\ pc = "recv" => InFlight = 0
            /\ pc = "send" => InFlight = 1
            /\ relay = "true" => InFlight = 0)
    /\ [][/\ (pc = "send" /\ relay' = "false") => InFlight' = 1
          /\ (pc = "recv" /\ relay' = "false") => InFlight' = 0]_vars

\* C20 witness: the relay returned false from the send select after it had
\* sent a chunk, with one received payload left unsent.
C20_Witness ==
    /\ relay = "false"
    /\ InFlight = 1
    /\ SentBy(cur) # <<>>

\* C18: with the calls running concurrently on one chunksChan, every chunk
\* on it is the template of the call that sent it with only Data replaced;
\* the payloads of the chunks of one call are, in order, the first payloads
\* that call's producer put on its channel; and a call that returned true
\* has sent every payload of its producer, whatever the consumer and the
\* other call did.
C18_SharedOutputChannel ==
    /\ \A i \in 1..Len(sharedChan) :
          sharedChan[i].chunk =
              CloneChunk(calls[sharedChan[i].from].chunkSkel,
                         sharedChan[i].chunk.Data)
    /\ \A c \in Calls :
          /\ IsPrefix(SentByCall(c), calls[c].produced)
          /\ calls[c].relay = "true" => SentByCall(c) = calls[c].produced

\* C18 witness: call 1 returned true with its chunks sent before and after
\* a chunk of call 2, which was cancelled and returned false leaving a
\* payload unsent.
C18_Witness ==
    /\ calls[1].relay = "true"
    /\ calls[2].relay = "false"
    /\ calls[2].ctxDone
    /\ Len(SentByCall(2)) < Len(calls[2].produced)
    /\ \E i, j, k \in 1..Len(sharedChan) :
          /\ i < j /\ j < k
          /\ sharedChan[i].from = 1
          /\ sharedChan[j].from = 2
          /\ sharedChan[k].from = 1

====
